---- MODULE Spec2Model ----
(***************************************************************************)
(* Cross-repo sync action (actions/cross-repo-sync): parse_inputs,         *)
(* clone_repo, move_paths, commit_and_push and program of src/program.ts,  *)
(* run against the Git and Core services and a POSIX file system.          *)
(*                                                                         *)
(* Strings are sequences of one-character strings, so that trim, indexOf,  *)
(* slice, the quote-stripping replace, includes and startsWith are         *)
(* computed character by character as the code computes them.              *)
(***************************************************************************)
EXTENDS Integers, Sequences, FiniteSets, TLC

(***************************************************************************)
(* Bounds of the model.                                                    *)
(***************************************************************************)
\* number of consecutive runs of the action against the same remotes
MaxRuns == 2

(***************************************************************************)
(* JavaScript string primitives.                                           *)
(***************************************************************************)
\* characters String.prototype.trim removes (those that occur in the model)
WhiteSpace == {" ", "\t", "\r", "\n"}

\* line terminators, which "." of a regular expression does not match
LineTerminators == {"\n", "\r"}

RECURSIVE trimStart(_)
trimStart(s) ==
  IF s # <<>> /\ Head(s) \in WhiteSpace THEN trimStart(Tail(s)) ELSE s

RECURSIVE trimEnd(_)
trimEnd(s) ==
  IF s # <<>> /\ s[Len(s)] \in WhiteSpace
  THEN trimEnd(SubSeq(s, 1, Len(s) - 1))
  ELSE s

\* String.prototype.trim
trim(s) == trimEnd(trimStart(s))

\* String.prototype.indexOf for a one-character needle: 0-based, -1 if absent
indexOf(s, c) ==
  IF \E i \in 1..Len(s) : s[i] = c
  THEN (CHOOSE i \in 1..Len(s) : s[i] = c /\ \A j \in 1..(i - 1) : s[j] # c) - 1
  ELSE -1

\* String.prototype.slice(from, to) with 0-based from (inclusive), to (exclusive)
slice(s, from, to) == SubSeq(s, from + 1, to)

\* String.prototype.split for a one-character separator
RECURSIVE split(_, _)
split(s, sep) ==
  LET i == indexOf(s, sep) IN
  IF i = -1 THEN <<s>>
  ELSE <<slice(s, 0, i)>> \o split(slice(s, i + 1, Len(s)), sep)

\* String.prototype.includes
includes(s, needle) ==
  \E i \in 1..(Len(s) - Len(needle) + 1) :
    SubSeq(s, i, i + Len(needle) - 1) = needle

\* String.prototype.startsWith
startsWith(s, prefix) ==
  Len(s) >= Len(prefix) /\ SubSeq(s, 1, Len(prefix)) = prefix

\* s.replace(/^"(.*)"$/, "$1"): one pair of enclosing double quotes is removed
\* when the text between them holds no line terminator
strip_quotes(s) ==
  IF /\ Len(s) >= 2
     /\ s[1] = "\""
     /\ s[Len(s)] = "\""
     /\ \A i \in 2..(Len(s) - 1) : s[i] \notin LineTerminators
  THEN SubSeq(s, 2, Len(s) - 1)
  ELSE s

\* the characters of [a-zA-Z0-9._-]
RepoChars ==
  { "a", "b", "c", "d", "e", "f", "g", "h", "i", "j", "k", "l", "m",
    "n", "o", "p", "q", "r", "s", "t", "u", "v", "w", "x", "y", "z",
    "A", "B", "C", "D", "E", "F", "G", "H", "I", "J", "K", "L", "M",
    "N", "O", "P", "Q", "R", "S", "T", "U", "V", "W", "X", "Y", "Z",
    "0", "1", "2", "3", "4", "5", "6", "7", "8", "9", ".", "_", "-" }

\* the test with the anchors ^ and $ left out of the expression: any text
\* holding owner/name passes
repo_format_ok_unanchored(repo) ==
  \E i \in 2..(Len(repo) - 1) :
    /\ repo[i] = "/"
    /\ repo[i - 1] \in RepoChars
    /\ repo[i + 1] \in RepoChars

\* /^[a-zA-Z0-9._-]+\/[a-zA-Z0-9._-]+$/.test(repo)
repo_format_ok(repo) ==
  \E i \in 2..(Len(repo) - 1) :
    /\ repo[i] = "/"
    /\ \A j \in 1..Len(repo) : j # i => repo[j] \in RepoChars

\* the text of a sequence of characters
RECURSIVE Str(_)
Str(s) == IF s = <<>> THEN "" ELSE Head(s) \o Str(Tail(s))

(***************************************************************************)
(* parse_inputs: the sync_paths mini-language.                             *)
(***************************************************************************)
\* the safety check with the test for ".." left out
unsafe_path_root_only(clean) == startsWith(clean, <<"/">>)

\* clean_source.includes("..") || clean_source.startsWith("/")
unsafe_path(clean) == includes(clean, <<".", ".">>) \/ startsWith(clean, <<"/">>)

\* the iteration with the line split at its last ":"
parse_line_last_colon(line) ==
  LET trimmed_line == trim(line)
      colon_index  ==
        IF indexOf(trimmed_line, ":") = -1 THEN -1
        ELSE (CHOOSE i \in 1..Len(trimmed_line) :
                /\ trimmed_line[i] = ":"
                /\ \A j \in (i + 1)..Len(trimmed_line) : trimmed_line[j] # ":") - 1
  IN
  IF trimmed_line = <<>> THEN [kind |-> "blank"]
  ELSE IF colon_index = -1 THEN
    LET clean_source == strip_quotes(trimmed_line) IN
    IF unsafe_path(clean_source)
    THEN [kind |-> "skipped", warning |-> <<clean_source>>]
    ELSE [kind |-> "pushed", mapping |-> <<clean_source, clean_source>>]
  ELSE
    LET source      == trim(slice(trimmed_line, 0, colon_index))
        destination == trim(slice(trimmed_line, colon_index + 1, Len(trimmed_line)))
        clean_source      == strip_quotes(source)
        clean_destination == strip_quotes(destination)
    IN
    IF unsafe_path(clean_source) \/ unsafe_path(clean_destination)
    THEN [kind |-> "skipped", warning |-> <<clean_source, clean_destination>>]
    ELSE [kind |-> "pushed", mapping |-> <<clean_source, clean_destination>>]

\* the iteration with the quotes of a line without separator kept
parse_line_keeps_quotes(line) ==
  LET trimmed_line == trim(line)
      colon_index  == indexOf(trimmed_line, ":")
  IN
  IF trimmed_line = <<>> THEN [kind |-> "blank"]
  ELSE IF colon_index = -1 THEN
    IF unsafe_path(trimmed_line)
    THEN [kind |-> "skipped", warning |-> <<trimmed_line>>]
    ELSE [kind |-> "pushed", mapping |-> <<trimmed_line, trimmed_line>>]
  ELSE
    LET source      == trim(slice(trimmed_line, 0, colon_index))
        destination == trim(slice(trimmed_line, colon_index + 1, Len(trimmed_line)))
        clean_source      == strip_quotes(source)
        clean_destination == strip_quotes(destination)
    IN
    IF unsafe_path(clean_source) \/ unsafe_path(clean_destination)
    THEN [kind |-> "skipped", warning |-> <<clean_source, clean_destination>>]
    ELSE [kind |-> "pushed", mapping |-> <<clean_source, clean_destination>>]

\* one iteration of the loop over sync_paths_input.split("\n"):
\* kind "blank" (continue), "skipped" (warning, continue) or "pushed"
parse_line(line) ==
  LET trimmed_line == trim(line)
      colon_index  == indexOf(trimmed_line, ":")
  IN
  IF trimmed_line = <<>> THEN [kind |-> "blank"]
  ELSE IF colon_index = -1 THEN
    LET clean_source == strip_quotes(trimmed_line) IN
    IF unsafe_path(clean_source)
    THEN [kind |-> "skipped", warning |-> <<clean_source>>]
    ELSE [kind |-> "pushed", mapping |-> <<clean_source, clean_source>>]
  ELSE
    LET source      == trim(slice(trimmed_line, 0, colon_index))
        destination == trim(slice(trimmed_line, colon_index + 1, Len(trimmed_line)))
        clean_source      == strip_quotes(source)
        clean_destination == strip_quotes(destination)
    IN
    IF unsafe_path(clean_source) \/ unsafe_path(clean_destination)
    THEN [kind |-> "skipped", warning |-> <<clean_source, clean_destination>>]
    ELSE [kind |-> "pushed", mapping |-> <<clean_source, clean_destination>>]

\* the loop left at the first rejected line (break for continue)
RECURSIVE parse_lines_stop_at_unsafe(_)
parse_lines_stop_at_unsafe(lines) ==
  IF lines = <<>> THEN <<>>
  ELSE LET r == parse_line(Head(lines)) IN
       IF r.kind = "skipped" THEN <<>>
       ELSE (IF r.kind = "pushed" THEN <<r.mapping>> ELSE <<>>)
              \o parse_lines_stop_at_unsafe(Tail(lines))

\* the mappings pushed for a list of lines, in line order
RECURSIVE parse_lines(_)
parse_lines(lines) ==
  IF lines = <<>> THEN <<>>
  ELSE LET r == parse_line(Head(lines)) IN
       (IF r.kind = "pushed" THEN <<r.mapping>> ELSE <<>>)
         \o parse_lines(Tail(lines))

\* the warnings emitted for a list of lines, in line order
RECURSIVE parse_warnings(_)
parse_warnings(lines) ==
  IF lines = <<>> THEN <<>>
  ELSE LET r == parse_line(Head(lines)) IN
       (IF r.kind = "skipped" THEN <<r.warning>> ELSE <<>>)
         \o parse_warnings(Tail(lines))

\* the test for an empty mapping list left out
no_valid_sync_paths_never(sync_paths) == FALSE

\* if (sync_paths.length === 0)
no_valid_sync_paths(sync_paths) == Len(sync_paths) = 0

\* parse_inputs as a function of the raw inputs: the error of the first
\* failing check, or the ActionInputs record
parse_inputs(raw) ==
  LET lines == split(raw.sync_paths, "\n")
      dry   == raw.dry_run = <<"t", "r", "u", "e">>
  IN
  IF raw.personal_access_token = <<>>
  THEN [ok |-> FALSE, error |-> "personal_access_token is required", warnings |-> <<>>]
  ELSE IF raw.destination_repo = <<>>
  THEN [ok |-> FALSE, error |-> "destination_repo is required", warnings |-> <<>>]
  ELSE IF raw.source_repo = <<>>
  THEN [ok |-> FALSE, error |-> "source_repo is required", warnings |-> <<>>]
  ELSE IF ~repo_format_ok(raw.destination_repo)
  THEN [ok |-> FALSE, error |-> "Invalid repository format", warnings |-> <<>>]
  ELSE IF trim(raw.sync_paths) = <<>>
  THEN [ok |-> FALSE, error |-> "sync_paths is required", warnings |-> <<>>]
  ELSE IF no_valid_sync_paths(parse_lines(lines))
  THEN [ok |-> FALSE, error |-> "No valid sync paths found",
        warnings |-> parse_warnings(lines)]
  ELSE [ok |-> TRUE, error |-> "",
        warnings |-> parse_warnings(lines),
        personal_access_token |-> raw.personal_access_token,
        sync_paths |-> parse_lines(lines),
        destination_repo |-> raw.destination_repo,
        dry_run |-> dry,
        source_repo |-> raw.source_repo]

(***************************************************************************)
(* Paths: sequences of segment names below the file-system root.           *)
(***************************************************************************)
\* path.normalize on the segments of a relative path: "" and "." are dropped,
\* ".." removes the segment before it
RECURSIVE normalize_segments(_, _)
normalize_segments(segs, acc) ==
  IF segs = <<>> THEN acc
  ELSE LET h == Head(segs) IN
       IF h = <<>> \/ h = <<".">> THEN normalize_segments(Tail(segs), acc)
       ELSE IF h = <<".", ".">>
       THEN normalize_segments(Tail(segs),
              IF acc = <<>> THEN acc ELSE SubSeq(acc, 1, Len(acc) - 1))
       ELSE normalize_segments(Tail(segs), Append(acc, Str(h)))

\* path.join(dir, rel)
path_join(dir, rel) == normalize_segments(split(rel, "/"), dir)

\* path.dirname
path_dirname(p) == IF p = <<>> THEN <<>> ELSE SubSeq(p, 1, Len(p) - 1)

IsPrefix(p, q) == Len(p) <= Len(q) /\ SubSeq(q, 1, Len(p)) = p

(***************************************************************************)
(* The file system: a function from the paths that exist to "DIR" or to    *)
(* the content of a file.  makeDirectory and rename behave as mkdir -p and *)
(* rename(2).                                                              *)
(***************************************************************************)
DIR == "DIR"

fs_exists(f, p) == p \in DOMAIN f

fs_is_dir(f, p) == p \in DOMAIN f /\ f[p] = DIR

\* p and everything below it
subtree(f, p) == {q \in DOMAIN f : IsPrefix(p, q)}

\* the paths strictly below p
below(f, p) == subtree(f, p) \ {p}

\* the prefixes of p, p included
prefixes(p) == {SubSeq(p, 1, n) : n \in 0..Len(p)}

\* the content below p as a function of the relative path
tree_at(f, p) ==
  [r \in {SubSeq(q, Len(p) + 1, Len(q)) : q \in below(f, p)} |-> f[p \o r]]

\* fs.makeDirectory(p, { recursive: true })
makeDirectory(f, p) ==
  IF \E q \in prefixes(p) : fs_exists(f, q) /\ ~fs_is_dir(f, q)
  THEN [ok |-> FALSE, fs |-> f]
  ELSE [ok |-> TRUE,
        fs |-> [q \in DOMAIN f \cup prefixes(p) |->
                  IF q \in DOMAIN f THEN f[q] ELSE DIR]]

\* the file system after moving the subtree at src to dst (dst, if there,
\* is replaced)
moved(f, src, dst) ==
  LET gone == subtree(f, src) \cup subtree(f, dst)
      put  == {dst \o SubSeq(q, Len(src) + 1, Len(q)) : q \in subtree(f, src)}
  IN [q \in (DOMAIN f \ gone) \cup put |->
        IF q \in put THEN f[src \o SubSeq(q, Len(dst) + 1, Len(q))] ELSE f[q]]

\* fs.rename(src, dst): rename(2)
rename(f, src, dst) ==
  IF ~fs_exists(f, src) THEN [ok |-> FALSE, error |-> "ENOENT", fs |-> f]
  ELSE IF ~fs_is_dir(f, path_dirname(dst))
  THEN [ok |-> FALSE,
        error |-> IF fs_exists(f, path_dirname(dst)) THEN "ENOTDIR" ELSE "ENOENT",
        fs |-> f]
  ELSE IF src = dst THEN [ok |-> TRUE, error |-> "", fs |-> f]
  ELSE IF IsPrefix(src, dst) THEN [ok |-> FALSE, error |-> "EINVAL", fs |-> f]
  ELSE IF fs_is_dir(f, src) /\ fs_exists(f, dst) /\ ~fs_is_dir(f, dst)
  THEN [ok |-> FALSE, error |-> "ENOTDIR", fs |-> f]
  ELSE IF ~fs_is_dir(f, src) /\ fs_is_dir(f, dst)
  THEN [ok |-> FALSE, error |-> "EISDIR", fs |-> f]
  ELSE IF fs_is_dir(f, src) /\ fs_is_dir(f, dst) /\ below(f, dst) # {}
  THEN [ok |-> FALSE, error |-> "ENOTEMPTY", fs |-> f]
  ELSE [ok |-> TRUE, error |-> "", fs |-> moved(f, src, dst)]

\* the tree below dir placed into the file system (a checkout)
planted(f, dir, tree) ==
  [q \in DOMAIN f \cup {dir \o r : r \in DOMAIN tree} |->
     IF IsPrefix(dir, q) /\ SubSeq(q, Len(dir) + 1, Len(q)) \in DOMAIN tree
     THEN tree[SubSeq(q, Len(dir) + 1, Len(q))]
     ELSE f[q]]

(***************************************************************************)
(* Git: remotes, commits and the Git / GitRepo services.                   *)
(***************************************************************************)
\* encodeURIComponent on one character (the characters of the model's tokens)
encode_char(c) ==
  CASE c = "@" -> <<"%", "4", "0">>
    [] c = "/" -> <<"%", "2", "F">>
    [] c = ":" -> <<"%", "3", "A">>
    [] c = " " -> <<"%", "2", "0">>
    [] c = "#" -> <<"%", "2", "3">>
    [] c = "+" -> <<"%", "2", "B">>
    [] OTHER   -> <<c>>

RECURSIVE encodeURIComponent(_)
encodeURIComponent(s) ==
  IF s = <<>> THEN <<>> ELSE encode_char(Head(s)) \o encodeURIComponent(Tail(s))

\* `https://${encodeURIComponent(access_token)}@github.com/${repo}.git`
repo_url(access_token, repo) ==
  <<"h", "t", "t", "p", "s", ":", "/", "/">> \o encodeURIComponent(access_token)
    \o <<"@", "g", "i", "t", "h", "u", "b", ".", "c", "o", "m", "/">> \o repo
    \o <<".", "g", "i", "t">>

\* the repository a clone URL names: the text between "@github.com/" and ".git"
url_repo(url) ==
  LET at == indexOf(url, "@") IN
  Str(slice(url, at + 12, Len(url) - 4))

GitDir == ".git"

\* the directories a set of file paths needs
dirs_of(files) ==
  UNION {{SubSeq(r, 1, n) : n \in 0..(Len(r) - 1)} : r \in files}

\* what `git clone` writes into its directory: the metadata directory (the
\* origin and the commit checked out) and the files of that commit
clone_tree(repo, head, files) ==
  LET meta == {<<GitDir>>, <<GitDir, "config">>, <<GitDir, "HEAD">>}
      dirs == dirs_of(DOMAIN files) \cup {<<>>, <<GitDir>>}
  IN [r \in dirs \cup meta \cup DOMAIN files |->
        IF r = <<GitDir, "config">> THEN "origin:" \o repo
        ELSE IF r = <<GitDir, "HEAD">> THEN head
        ELSE IF r \in dirs THEN DIR
        ELSE files[r]]

\* the files of the working tree at dir, the metadata directory left out
worktree(f, dir) ==
  LET t == tree_at(f, dir) IN
  [r \in {q \in DOMAIN t : t[q] # DIR /\ q[1] # GitDir} |-> t[r]]

(***************************************************************************)
(* The inputs and the repositories the runs are checked on.                *)
(***************************************************************************)
Tokens == {<<>>, <<"t", "@", "k">>}

SourceRepos == {<<>>, <<"o", "/", "s">>, <<"n", "o", "n", "e">>}

DestinationRepos == {<<>>, <<"o", "/", "d">>, <<"n", "o", "t", "-", "a", "-", "r", "e", "p", "o">>,
                     <<"o", "/", "d", "/", "x">>}

DryRuns == {<<>>, <<"t", "r", "u", "e">>, <<"f", "a", "l", "s", "e">>}

SyncPathsInputs ==
  {
    \* 'a:x\nb:x': two files mapped to one destination
    <<"a", ":", "x", "\n", "b", ":", "x">>,
    \* 'd:x\ne:x': two directories mapped to one destination
    <<"d", ":", "x", "\n", "e", ":", "x">>,
    \* 'a': no separator
    <<"a">>,
    \* ' "a" : "x y" ': quoted sides, surrounding blanks
    <<" ", "\"", "a", "\"", " ", ":", " ", "\"", "x", " ", "y", "\"", " ">>,
    \* '../a:x': the only line is unsafe
    <<".", ".", "/", "a", ":", "x">>,
    \* 'a:../x\n\nb': an unsafe line, a blank line, a safe line
    <<"a", ":", ".", ".", "/", "x", "\n", "\n", "b">>,
    \* '/a\nb:/x\nd:y': root-anchored lines and a safe line
    <<"/", "a", "\n", "b", ":", "/", "x", "\n", "d", ":", "y">>,
    \* ' \n ': blank
    <<" ", "\n", " ">>,
    \* '': empty
    <<>>,
    \* 'a:.git/config': a destination inside the metadata directory
    <<"a", ":", ".", "g", "i", "t", "/", "c", "o", "n", "f", "i", "g">>,
    \* ':y': an empty source
    <<":", "y">>,
    \* 'd:x\nd/f:y': a source inside an earlier source
    <<"d", ":", "x", "\n", "d", "/", "f", ":", "y">>,
    \* 'q:x': a source path that does not exist
    <<"q", ":", "x">>,
    \* 'q:x\na:y': a source path that does not exist, then one that does
    <<"q", ":", "x", "\n", "a", ":", "y">>,
    \* 'a:x/y\nb:x': a file mapped onto a directory made by an earlier mapping
    <<"a", ":", "x", "/", "y", "\n", "b", ":", "x">>,
    \* 'a..b:x\nb:y': a name that holds two dots, then a plain line
    <<"a", ".", ".", "b", ":", "x", "\n", "b", ":", "y">>,
    \* ' "a"\nb ': a quoted line and a plain line, neither with a separator
    <<" ", "\"", "a", "\"", "\n", "b", " ">>,
    \* '.git/config:.git/config': the source's metadata file mapped onto the
    \* target's
    <<".", "g", "i", "t", "/", "c", "o", "n", "f", "i", "g", ":",
      ".", "g", "i", "t", "/", "c", "o", "n", "f", "i", "g">>,
    \* 'a:x:y\n"a\rb":"x y"': a second separator; a carriage return in quotes
    <<"a", ":", "x", ":", "y", "\n",
      "\"", "a", "\r", "b", "\"", ":", "\"", "x", " ", "y", "\"">>
  }

\* the files of the source repository
SourceFiles ==
  [r \in {<<"a">>, <<"b">>, <<"d", "f">>, <<"e", "f">>} |->
     CASE r = <<"a">> -> "A"
       [] r = <<"b">> -> "B"
       [] r = <<"d", "f">> -> "F"
       [] r = <<"e", "f">> -> "G"]

\* the files of the destination repository before the first run: files of its
\* own, or the source's file a already in place
DestinationFiles ==
  { [r \in {<<"k">>, <<"x">>} |-> IF r = <<"k">> THEN "K" ELSE "X"],
    [r \in {<<"a">>} |-> "A"] }

(***************************************************************************)
(* State.                                                                  *)
(***************************************************************************)
VARIABLES
  raw,          \* the action inputs core.get_input returns, the same in every run
  git_impl,     \* the Git layer provided to the program
  run,          \* the number of the current run
  pc,           \* the position of the current run in program
  inputs,       \* the ActionInputs parse_inputs returned
  secrets,      \* the values passed to core.set_secret
  warnings,     \* the messages passed to core.warning
  infos,        \* the messages passed to core.info
  outputs,      \* the core.set_output calls, <<name, value>>
  span_attrs,   \* the attributes annotated on tracing spans, <<span, key, value>>
  fs,           \* the file system
  remotes,      \* the head commit of each remote repository
  commits,      \* the commits: the repository and the files of each
  identity,     \* the identity keys set by Git.config, in the process's directory
  temp_dir,     \* the directory fs.makeTempDirectory returned
  target_repo,  \* the directory of the handle repo_from_path returned
  index,        \* the files staged on the target handle
  move_index,   \* the mapping move_paths is at
  status,       \* the text repo.status returned
  commit_hash,  \* the value commit_and_push returned
  calls,        \* the Git and file-system calls of the current run, in order
  results       \* the outcome of each finished run

vars == <<raw, git_impl, run, pc, inputs, secrets, warnings, infos, outputs,
          span_attrs, fs, remotes, commits, identity, temp_dir, target_repo,
          index, move_index, status, commit_hash, calls, results>>

GitImpls == {"GitLive", "GitClient"}

NoInputs == [ok |-> FALSE]

NoPath == <<>>

NoIndex == [staged |-> FALSE]

DestinationRepoName == "o/d"

SourceRepoName == "o/s"

Init ==
  /\ raw \in [personal_access_token : Tokens,
              sync_paths : SyncPathsInputs,
              source_repo : SourceRepos,
              destination_repo : DestinationRepos,
              dry_run : DryRuns]
  /\ git_impl \in GitImpls
  /\ run = 1
  /\ pc = "start"
  /\ inputs = NoInputs
  /\ secrets = <<>>
  /\ warnings = <<>>
  /\ infos = <<>>
  /\ outputs = <<>>
  /\ span_attrs = {}
  /\ fs = [p \in {<<>>} |-> DIR]
  /\ remotes = [r \in {DestinationRepoName, SourceRepoName} |->
                  IF r = DestinationRepoName THEN "d0" ELSE "s0"]
  /\ \E destination_files \in DestinationFiles :
       commits = [c \in {"d0", "s0"} |->
                    IF c = "d0"
                    THEN [repo |-> DestinationRepoName, files |-> destination_files,
                          parent |-> ""]
                    ELSE [repo |-> SourceRepoName, files |-> SourceFiles,
                          parent |-> ""]]
  /\ identity = {}
  /\ temp_dir = NoPath
  /\ target_repo = NoPath
  /\ index = NoIndex
  /\ move_index = 1
  /\ status = <<>>
  /\ commit_hash = ""
  /\ calls = <<>>
  /\ results = <<>>

(***************************************************************************)
(* The end of a run.                                                       *)
(***************************************************************************)
\* a call of a collaborator: what was called, on which directory, with which
\* argument, whether it succeeded and the text it returned
CallRet(op, on, arg, ok, ret) ==
  [op |-> op, on |-> on, arg |-> arg, ok |-> ok, ret |-> ret]

Call(op, on, arg, ok) == CallRet(op, on, arg, ok, <<>>)

\* the failure caught and replaced by an empty result: the run goes on to its
\* end
Fails_swallowed(error, calls_now, remotes_now) ==
  /\ pc' = "set_output"
  /\ results' = results

\* the Effect fails (or dies): the run ends in failure
Fails(error, calls_now, remotes_now) ==
  /\ pc' = "failed"
  /\ results' = Append(results, [exit |-> "failure", error |-> error,
                                 outputs |-> outputs, calls |-> calls_now,
                                 remotes |-> remotes_now])

\* program returns: the run ends in success
Succeeds(outputs_now) ==
  /\ pc' = "done"
  /\ results' = Append(results, [exit |-> "success", error |-> "",
                                 outputs |-> outputs_now, calls |-> calls,
                                 remotes |-> remotes])

(***************************************************************************)
(* program: parse_inputs and the announcement of the mappings.             *)
(***************************************************************************)
Info(text, args) == [text |-> text, args |-> args]

\* core.info(`   ${index + 1}. ${source} -> ${destination}`) for each mapping
mapping_infos(sync_paths) ==
  [i \in 1..Len(sync_paths) |->
     Info("mapping", <<<<ToString(i)>>, sync_paths[i][1], sync_paths[i][2]>>)]

\* the masking call made with the encoded form of the token
set_secret_calls_encoded(token) == <<encodeURIComponent(token)>>

\* core.set_secret(personal_access_token), before the checks of parse_inputs
set_secret_calls(token) == <<token>>

\* yield* parse_inputs
ParseInputs ==
  /\ pc = "start"
  /\ LET r == parse_inputs(raw) IN
     /\ secrets' = secrets \o set_secret_calls(raw.personal_access_token)
     /\ warnings' = warnings \o r.warnings
     /\ IF r.ok
        THEN /\ inputs' = r
             /\ pc' = "parsed"
             /\ UNCHANGED results
        ELSE /\ inputs' = inputs
             /\ Fails(r.error, calls, remotes)
  /\ UNCHANGED <<raw, git_impl, run, infos, outputs, span_attrs, fs, remotes,
                 commits, identity, temp_dir, target_repo, index, move_index,
                 status, commit_hash, calls>>

\* program without the return of the dry-run branch (the messages only)
after_announce_no_return(dry_run) == "make_temp"

\* if (inputs.dry_run) { ...; return }: where program goes after the messages
after_announce(dry_run) == IF dry_run THEN "done" ELSE "make_temp"

\* the span annotations and the messages up to the dry-run return
Announce ==
  /\ pc = "parsed"
  /\ span_attrs' = span_attrs \cup
       { <<"program", "personal_access_token", inputs.personal_access_token>>,
         <<"program", "sync_paths", <<ToString(Len(inputs.sync_paths))>>>>,
         <<"program", "destination_repo", inputs.destination_repo>>,
         <<"program", "dry_run", <<ToString(inputs.dry_run)>>>>,
         <<"program", "source_repo", inputs.source_repo>> }
  /\ infos' = infos
       \o << Info("Starting cross-repo sync",
                  <<inputs.destination_repo,
                    IF inputs.dry_run THEN <<" (DRY RUN)">> ELSE <<>>>>),
             Info("Found sync path(s)", <<<<ToString(Len(inputs.sync_paths))>>>>) >>
       \o mapping_infos(inputs.sync_paths)
       \o (IF inputs.dry_run THEN <<Info("Running in dry-run mode", <<>>)>> ELSE <<>>)
  /\ IF after_announce(inputs.dry_run) = "done"
     THEN Succeeds(outputs)
     ELSE pc' = after_announce(inputs.dry_run) /\ UNCHANGED results
  /\ UNCHANGED <<raw, git_impl, run, inputs, secrets, warnings, outputs, fs,
                 remotes, commits, identity, temp_dir, target_repo, index,
                 move_index, status, commit_hash, calls>>

(***************************************************************************)
(* program: the working directories and the two clones.                    *)
(***************************************************************************)
destination_repo_dir == Append(temp_dir, "destination_repo")

source_repo_dir == Append(temp_dir, "source_repo")

target_dir == Append(temp_dir, "target")

\* fs.makeTempDirectory(): a fresh directory
MakeTempDirectory ==
  /\ pc = "make_temp"
  /\ LET dir == <<"tmp" \o ToString(run)>> IN
     /\ temp_dir' = dir
     /\ fs' = makeDirectory(fs, dir).fs
     /\ calls' = Append(calls, Call("makeTempDirectory", dir, <<>>, TRUE))
  /\ pc' = "configure_git"
  /\ UNCHANGED <<raw, git_impl, run, inputs, secrets, warnings, infos, outputs,
                 span_attrs, remotes, commits, identity, target_repo, index,
                 move_index, status, commit_hash, results>>

\* yield* configureGit(gitConfig): Git.config sets user.name, then user.email,
\* in the directory the process runs in; either command may fail
ConfigureGit ==
  /\ pc = "configure_git"
  /\ \E done \in 0..2 :
       /\ identity' = identity \cup
            (IF done >= 1 THEN {"user.name"} ELSE {}) \cup
            (IF done >= 2 THEN {"user.email"} ELSE {})
       /\ calls' = Append(calls, Call("config", <<"cwd">>, <<>>, done = 2))
       /\ IF done = 2
          THEN pc' = "make_target" /\ UNCHANGED results
          ELSE Fails("git config", calls', remotes)
  /\ UNCHANGED <<raw, git_impl, run, inputs, secrets, warnings, infos, outputs,
                 span_attrs, fs, remotes, commits, temp_dir, target_repo, index,
                 move_index, status, commit_hash>>

\* yield* fs.makeDirectory(target_dir, { recursive: true })
MakeTargetDir ==
  /\ pc = "make_target"
  /\ LET r == makeDirectory(fs, target_dir) IN
     /\ fs' = r.fs
     /\ calls' = Append(calls, Call("makeDirectory", target_dir, <<>>, r.ok))
     /\ IF r.ok
        THEN pc' = "clone_destination" /\ UNCHANGED results
        ELSE Fails("makeDirectory", calls', remotes)
  /\ UNCHANGED <<raw, git_impl, run, inputs, secrets, warnings, infos, outputs,
                 span_attrs, remotes, commits, identity, temp_dir, target_repo,
                 index, move_index, status, commit_hash>>

\* git.clone(url, dir) can succeed when the remote exists and dir is free
can_clone(url, dir) ==
  /\ url_repo(url) \in DOMAIN remotes
  /\ ~fs_exists(fs, dir) \/ (fs_is_dir(fs, dir) /\ below(fs, dir) = {})

\* the file system after git.clone(url, dir)
cloned(url, dir) ==
  LET repo == url_repo(url)
      head == remotes[repo]
  IN planted(fs, dir, clone_tree(repo, head, commits[head].files))

\* yield* clone_repo({ access_token, repo, dir }), then the next position
CloneRepo(at, repo, dir, next) ==
  /\ pc = at
  /\ LET url == repo_url(inputs.personal_access_token, repo) IN
     /\ span_attrs' = span_attrs \cup
          {<<"clone_repo", "repo", repo>>, <<"clone_repo", "dir", dir>>}
     /\ \E ok \in BOOLEAN :
          /\ ok => can_clone(url, dir)
          /\ calls' = Append(calls, Call("clone", dir, url, ok))
          /\ IF ok
             THEN /\ fs' = cloned(url, dir)
                  /\ pc' = next
                  /\ UNCHANGED results
             ELSE /\ fs' = fs
                  /\ Fails("git clone", calls', remotes)
  /\ UNCHANGED <<raw, git_impl, run, inputs, secrets, warnings, infos, outputs,
                 remotes, commits, identity, temp_dir, target_repo, index,
                 move_index, status, commit_hash>>

\* the destination clone with its failure passed over: the source clone
\* follows in any case
CloneDestination_failure_ignored ==
  /\ pc = "clone_destination"
  /\ LET url == repo_url(inputs.personal_access_token, inputs.destination_repo) IN
     /\ span_attrs' = span_attrs \cup
          {<<"clone_repo", "repo", inputs.destination_repo>>,
           <<"clone_repo", "dir", destination_repo_dir>>}
     /\ \E ok \in BOOLEAN :
          /\ ok => can_clone(url, destination_repo_dir)
          /\ calls' = Append(calls, Call("clone", destination_repo_dir, url, ok))
          /\ fs' = IF ok THEN cloned(url, destination_repo_dir) ELSE fs
     /\ pc' = "clone_source"
  /\ UNCHANGED <<raw, git_impl, run, inputs, secrets, warnings, infos, outputs,
                 remotes, commits, identity, temp_dir, target_repo, index,
                 move_index, status, commit_hash, results>>

CloneDestination ==
  CloneRepo("clone_destination", inputs.destination_repo, destination_repo_dir,
            "clone_source")

CloneSource ==
  CloneRepo("clone_source", inputs.source_repo, source_repo_dir, "rename_git")

(***************************************************************************)
(* program: the merged tree.                                               *)
(***************************************************************************)
\* the whole destination clone relocated to the target directory, its working
\* tree included
RenameGitDir_whole_clone ==
  /\ pc = "rename_git"
  /\ LET src == destination_repo_dir
         dst == target_dir
         r   == rename(fs, src, dst)
     IN
     /\ fs' = r.fs
     /\ calls' = Append(calls, Call("rename", src, dst, r.ok))
     /\ IF r.ok
        THEN pc' = "repo_from_path" /\ UNCHANGED results
        ELSE Fails(r.error, calls', remotes)
  /\ UNCHANGED <<raw, git_impl, run, inputs, secrets, warnings, infos, outputs,
                 span_attrs, remotes, commits, identity, temp_dir, target_repo,
                 index, move_index, status, commit_hash>>

\* yield* fs.rename(path.join(destination_repo_dir, ".git"),
\*                  path.join(target_dir, ".git"))
RenameGitDir ==
  /\ pc = "rename_git"
  /\ LET src == path_join(destination_repo_dir, <<".", "g", "i", "t">>)
         dst == path_join(target_dir, <<".", "g", "i", "t">>)
         r   == rename(fs, src, dst)
     IN
     /\ fs' = r.fs
     /\ calls' = Append(calls, Call("rename", src, dst, r.ok))
     /\ IF r.ok
        THEN pc' = "repo_from_path" /\ UNCHANGED results
        ELSE Fails(r.error, calls', remotes)
  /\ UNCHANGED <<raw, git_impl, run, inputs, secrets, warnings, infos, outputs,
                 span_attrs, remotes, commits, identity, temp_dir, target_repo,
                 index, move_index, status, commit_hash>>

\* GitLive provides repo_from_path as `null as any`: calling it throws
repo_from_path_live == {"throws"}

\* the repository client binds a handle to the directory, or fails
repo_from_path_client == {"bound", "fails"}

\* git.repo_from_path of the layer provided to the program
repo_from_path_outcomes ==
  IF git_impl = "GitLive" THEN repo_from_path_live ELSE repo_from_path_client

\* const target_repo = yield* git.repo_from_path(target_dir)
RepoFromPath ==
  /\ pc = "repo_from_path"
  /\ \E outcome \in repo_from_path_outcomes :
       /\ calls' = Append(calls, Call("repo_from_path", target_dir, <<>>,
                                      outcome = "bound"))
       /\ IF outcome = "bound"
          THEN /\ target_repo' = target_dir
               /\ pc' = "move_paths"
               /\ UNCHANGED results
          ELSE /\ target_repo' = target_repo
               /\ Fails(IF outcome = "throws"
                        THEN "TypeError: git.repo_from_path is not a function"
                        ELSE "git repo_from_path", calls', remotes)
  /\ UNCHANGED <<raw, git_impl, run, inputs, secrets, warnings, infos, outputs,
                 span_attrs, fs, remotes, commits, identity, temp_dir, index,
                 move_index, status, commit_hash>>

\* the iteration with a mapping whose source is missing passed over
move_path_skip_missing(f, source_clone_dir, destination_clone_dir, mapping) ==
  LET source_path          == path_join(source_clone_dir, mapping[1])
      destination_path     == path_join(destination_clone_dir, mapping[2])
      destination_dir_path == path_dirname(destination_path)
      made                 == makeDirectory(f, destination_dir_path)
      renamed              == rename(made.fs, source_path, destination_path)
  IN
  IF ~fs_exists(f, source_path)
  THEN [ok |-> TRUE, error |-> "", fs |-> f, calls |-> <<>>]
  ELSE IF ~made.ok
  THEN [ok |-> FALSE, error |-> "makeDirectory", fs |-> f,
        calls |-> <<Call("makeDirectory", destination_dir_path, <<>>, FALSE)>>]
  ELSE [ok |-> renamed.ok, error |-> renamed.error, fs |-> renamed.fs,
        calls |-> <<Call("makeDirectory", destination_dir_path, <<>>, TRUE),
                    Call("rename", source_path, destination_path, renamed.ok)>>]

\* one iteration of the loop of move_paths over inputs.sync_paths:
\* makeDirectory(dirname(destination_path)), then rename(source_path,
\* destination_path)
move_path(f, source_clone_dir, destination_clone_dir, mapping) ==
  LET source_path          == path_join(source_clone_dir, mapping[1])
      destination_path     == path_join(destination_clone_dir, mapping[2])
      destination_dir_path == path_dirname(destination_path)
      made                 == makeDirectory(f, destination_dir_path)
      renamed              == rename(made.fs, source_path, destination_path)
  IN
  IF ~made.ok
  THEN [ok |-> FALSE, error |-> "makeDirectory", fs |-> f,
        calls |-> <<Call("makeDirectory", destination_dir_path, <<>>, FALSE)>>]
  ELSE [ok |-> renamed.ok, error |-> renamed.error, fs |-> renamed.fs,
        calls |-> <<Call("makeDirectory", destination_dir_path, <<>>, TRUE),
                    Call("rename", source_path, destination_path, renamed.ok)>>]

\* the loop taking the mappings from the last to the first
next_mapping_reversed(sync_paths, i) == sync_paths[Len(sync_paths) + 1 - i]

\* for (const [source, destination] of inputs.sync_paths): the i-th iteration
next_mapping(sync_paths, i) == sync_paths[i]

\* yield* move_paths(inputs, source_repo_dir, target_dir), one mapping at a time
MovePaths ==
  /\ pc = "move_paths"
  /\ span_attrs' = span_attrs \cup
       {<<"move_paths", "source_clone_dir", source_repo_dir>>,
        <<"move_paths", "destination_clone_dir", target_dir>>}
  /\ LET r == move_path(fs, source_repo_dir, target_dir,
                        next_mapping(inputs.sync_paths, move_index))
     IN
     /\ fs' = r.fs
     /\ calls' = calls \o r.calls
     /\ IF ~r.ok
        THEN /\ Fails(r.error, calls', remotes)
             /\ UNCHANGED move_index
        ELSE /\ move_index' = move_index + 1
             /\ pc' = IF move_index = Len(inputs.sync_paths)
                      THEN "status" ELSE "move_paths"
             /\ UNCHANGED results
  /\ UNCHANGED <<raw, git_impl, run, inputs, secrets, warnings, infos, outputs,
                 remotes, commits, identity, temp_dir, target_repo, index,
                 status, commit_hash>>

(***************************************************************************)
(* The GitRepo handle: git run in the handle's directory.                  *)
(***************************************************************************)
head_path(dir) == dir \o <<GitDir, "HEAD">>

config_path(dir) == dir \o <<GitDir, "config">>

\* git can work in dir: HEAD names a known commit and the configuration names
\* a remote
repo_ok(f, dir) ==
  /\ fs_exists(f, head_path(dir)) /\ f[head_path(dir)] \in DOMAIN commits
  /\ fs_exists(f, config_path(dir))
  /\ \E r \in DOMAIN remotes : f[config_path(dir)] = "origin:" \o r

head_of(f, dir) == f[head_path(dir)]

\* the remote the configuration at dir names
origin_of(f, dir) ==
  CHOOSE r \in DOMAIN remotes : f[config_path(dir)] = "origin:" \o r

\* commit a is h or one of its ancestors
RECURSIVE ancestor(_, _)
ancestor(a, h) ==
  \/ a = h
  \/ commits[h].parent # "" /\ ancestor(a, commits[h].parent)

\* the remote at the origin of dir accepts a push of the head: a fast-forward
push_accepted(f, dir) == ancestor(remotes[origin_of(f, dir)], head_of(f, dir))

\* the working tree at dir has the files of its head commit
clean(f, dir) == worktree(f, dir) = commits[head_of(f, dir)].files

\* GitRepoLive.status runs `git status`: the long format, which is text for a
\* clean tree too
status_live(f, dir) ==
  IF clean(f, dir)
  THEN <<"n", "o", "t", "h", "i", "n", "g", " ", "t", "o", " ",
         "c", "o", "m", "m", "i", "t", "\n">>
  ELSE <<"C", "h", "a", "n", "g", "e", "s", "\n">>

\* the repository client's status is the porcelain format: one line per
\* changed path, nothing for a clean tree
status_porcelain(f, dir) ==
  IF clean(f, dir) THEN <<>> ELSE <<" ", "M", " ", "x", "\n">>

\* repo.status() of the handle the layer returned
status_text(impl, f, dir) ==
  IF impl = "GitLive" THEN status_live(f, dir) ELSE status_porcelain(f, dir)

\* the identifier of the next commit
new_commit == "n" \o ToString(Cardinality(DOMAIN commits))

(***************************************************************************)
(* commit_and_push(target_repo), and the end of program.                   *)
(***************************************************************************)
commit_message == <<"chore: Sync files from source repository">>

\* the test of the status text inverted
no_changes_inverted(text) == trim(text) # <<>>

\* commit_and_push with the commit statement left out
committer_next_no_commit(at) ==
  CASE at = "add"       -> "push"
    [] at = "commit"    -> "push"
    [] at = "push"      -> "rev_parse"
    [] at = "rev_parse" -> "set_output"

\* if (!status.trim())
no_changes(text) == trim(text) = <<>>

\* the statement that follows each call of commit_and_push when it succeeds:
\* add, commit, push, rev_parse, then the return to program
committer_next(at) ==
  CASE at = "add"       -> "commit"
    [] at = "commit"    -> "push"
    [] at = "push"      -> "rev_parse"
    [] at = "rev_parse" -> "set_output"

\* const status = yield* repo.status(); if (!status.trim()) return ""
Status ==
  /\ pc = "status"
  /\ \E ok \in BOOLEAN :
       /\ ok => repo_ok(fs, target_repo)
       /\ calls' = Append(calls,
            CallRet("status", target_repo, <<>>, ok,
                    IF ok THEN status_text(git_impl, fs, target_repo) ELSE <<>>))
       /\ IF ~ok
          THEN /\ Fails("git status", calls', remotes)
               /\ UNCHANGED <<status, infos, commit_hash>>
          ELSE /\ status' = status_text(git_impl, fs, target_repo)
               /\ UNCHANGED results
               /\ IF no_changes(status')
                  THEN /\ infos' = Append(infos,
                            Info("No changes detected, skipping commit and push", <<>>))
                       /\ commit_hash' = ""
                       /\ pc' = "set_output"
                  ELSE /\ pc' = "add"
                       /\ UNCHANGED <<infos, commit_hash>>
  /\ UNCHANGED <<raw, git_impl, run, inputs, secrets, warnings, outputs,
                 span_attrs, fs, remotes, commits, identity, temp_dir,
                 target_repo, index, move_index>>

\* yield* repo.add(["."])
Add ==
  /\ pc = "add"
  /\ \E ok \in BOOLEAN :
       /\ ok => repo_ok(fs, target_repo)
       /\ calls' = Append(calls, Call("add", target_repo, <<".">>, ok))
       /\ IF ok
          THEN /\ index' = [staged |-> TRUE, files |-> worktree(fs, target_repo)]
               /\ pc' = committer_next("add")
               /\ UNCHANGED results
          ELSE /\ index' = index
               /\ Fails("git add", calls', remotes)
  /\ UNCHANGED <<raw, git_impl, run, inputs, secrets, warnings, infos, outputs,
                 span_attrs, fs, remotes, commits, identity, temp_dir,
                 target_repo, move_index, status, commit_hash>>

\* yield* repo.commit(commit_message): git commits what is staged, and fails
\* when nothing is
Commit ==
  /\ pc = "commit"
  /\ \E ok \in BOOLEAN :
       /\ ok => /\ repo_ok(fs, target_repo)
                /\ index.staged
                /\ index.files # commits[head_of(fs, target_repo)].files
       /\ calls' = Append(calls, Call("commit", target_repo, commit_message, ok))
       /\ IF ok
          THEN /\ commits' =
                    [c \in DOMAIN commits \cup {new_commit} |->
                       IF c = new_commit
                       THEN [repo |-> origin_of(fs, target_repo),
                             files |-> index.files,
                             parent |-> head_of(fs, target_repo)]
                       ELSE commits[c]]
               /\ fs' = [fs EXCEPT ![head_path(target_repo)] = new_commit]
               /\ pc' = committer_next("commit")
               /\ UNCHANGED results
          ELSE /\ UNCHANGED <<commits, fs>>
               /\ Fails("git commit", calls', remotes)
  /\ UNCHANGED <<raw, git_impl, run, inputs, secrets, warnings, infos, outputs,
                 span_attrs, remotes, identity, temp_dir, target_repo, index,
                 move_index, status, commit_hash>>

\* yield* repo.push(): the origin's head becomes the handle's head
Push ==
  /\ pc = "push"
  /\ \E ok \in BOOLEAN :
       /\ ok => repo_ok(fs, target_repo) /\ push_accepted(fs, target_repo)
       /\ calls' = Append(calls, Call("push", target_repo, <<>>, ok))
       /\ IF ok
          THEN /\ remotes' = [remotes EXCEPT ![origin_of(fs, target_repo)] =
                                head_of(fs, target_repo)]
               /\ pc' = committer_next("push")
               /\ UNCHANGED results
          ELSE /\ remotes' = remotes
               /\ Fails("git push", calls', remotes)
  /\ UNCHANGED <<raw, git_impl, run, inputs, secrets, warnings, infos, outputs,
                 span_attrs, fs, commits, identity, temp_dir, target_repo, index,
                 move_index, status, commit_hash>>

\* rev_parse with a failure replaced by the empty hash
RevParse_fallback_empty ==
  /\ pc = "rev_parse"
  /\ \E ok \in BOOLEAN :
       /\ ok => repo_ok(fs, target_repo)
       /\ calls' = Append(calls,
            CallRet("rev_parse", target_repo, <<"HEAD">>, ok,
                    IF ok THEN <<head_of(fs, target_repo)>> ELSE <<>>))
       /\ commit_hash' = IF ok THEN head_of(fs, target_repo) ELSE ""
       /\ pc' = "set_output"
  /\ UNCHANGED <<raw, git_impl, run, inputs, secrets, warnings, infos, outputs,
                 span_attrs, fs, remotes, commits, identity, temp_dir,
                 target_repo, index, move_index, status, results>>

\* const commit_hash = yield* repo.rev_parse("HEAD"); core.info(...); return it
RevParse ==
  /\ pc = "rev_parse"
  /\ \E ok \in BOOLEAN :
       /\ ok => repo_ok(fs, target_repo)
       /\ calls' = Append(calls,
            CallRet("rev_parse", target_repo, <<"HEAD">>, ok,
                    IF ok THEN <<head_of(fs, target_repo)>> ELSE <<>>))
       /\ IF ok
          THEN /\ commit_hash' = head_of(fs, target_repo)
               /\ infos' = Append(infos,
                    Info("Successfully pushed changes with commit hash",
                         <<<<commit_hash'>>>>))
               /\ pc' = committer_next("rev_parse")
               /\ UNCHANGED results
          ELSE /\ UNCHANGED <<commit_hash, infos>>
               /\ Fails("git rev-parse", calls', remotes)
  /\ UNCHANGED <<raw, git_impl, run, inputs, secrets, warnings, outputs,
                 span_attrs, fs, remotes, commits, identity, temp_dir,
                 target_repo, index, move_index, status>>

\* set_output called only for a non-empty hash
set_output_calls_skip_empty(hash) ==
  IF hash = "" THEN <<>> ELSE <<<<"commit_hash", hash>>>>

\* core.set_output("commit_hash", commit_hash)
set_output_calls(hash) == <<<<"commit_hash", hash>>>>

\* core.set_output("commit_hash", commit_hash); core.info(...); program returns
SetOutput ==
  /\ pc = "set_output"
  /\ outputs' = outputs \o set_output_calls(commit_hash)
  /\ infos' = Append(infos, Info("Cross-repo sync completed successfully", <<>>))
  /\ Succeeds(outputs')
  /\ UNCHANGED <<raw, git_impl, run, inputs, secrets, warnings, span_attrs, fs,
                 remotes, commits, identity, temp_dir, target_repo, index,
                 move_index, status, commit_hash, calls>>

\* the action is run again, with the same inputs, after a run that succeeded;
\* the file system and the remotes are as that run left them
NextRun ==
  /\ pc = "done"
  /\ run < MaxRuns
  /\ run' = run + 1
  /\ pc' = "start"
  /\ inputs' = NoInputs
  /\ secrets' = <<>>
  /\ warnings' = <<>>
  /\ infos' = <<>>
  /\ outputs' = <<>>
  /\ span_attrs' = {}
  /\ temp_dir' = NoPath
  /\ target_repo' = NoPath
  /\ index' = NoIndex
  /\ move_index' = 1
  /\ status' = <<>>
  /\ commit_hash' = ""
  /\ calls' = <<>>
  /\ UNCHANGED <<raw, git_impl, fs, remotes, commits, identity, results>>

Next ==
  \/ ParseInputs
  \/ Announce
  \/ MakeTempDirectory
  \/ ConfigureGit
  \/ MakeTargetDir
  \/ CloneDestination
  \/ CloneSource
  \/ RenameGitDir
  \/ RepoFromPath
  \/ MovePaths
  \/ Status
  \/ Add
  \/ Commit
  \/ Push
  \/ RevParse
  \/ SetOutput
  \/ NextRun

Spec == Init /\ [][Next]_vars

(***************************************************************************)
(* What the properties below speak of.                                     *)
(***************************************************************************)
InitialFs == [p \in {<<>>} |-> DIR]

InitialRemotes ==
  [r \in {DestinationRepoName, SourceRepoName} |->
     IF r = DestinationRepoName THEN "d0" ELSE "s0"]

Invoked(op) == \E i \in 1..Len(calls) : calls[i].op = op

LastResult == results[Len(results)]

RunOver == pc \in {"done", "failed"}

Blank(text) == \A i \in 1..Len(text) : text[i] \in WhiteSpace

\* owner/name: one "/", a non-empty owner before it and a non-empty name after
OwnerNameShape(repo) ==
  LET slashes == {i \in 1..Len(repo) : repo[i] = "/"} IN
  /\ Cardinality(slashes) = 1
  /\ 1 \notin slashes /\ Len(repo) \notin slashes
  /\ \A i \in 1..Len(repo) : i \notin slashes => repo[i] \in RepoChars

\* the validation errors of the inputs
ValidationFails(r) ==
  \/ r.personal_access_token = <<>>
  \/ r.source_repo = <<>>
  \/ r.destination_repo = <<>>
  \/ ~OwnerNameShape(r.destination_repo)
  \/ Blank(r.sync_paths)
  \/ parse_lines(split(r.sync_paths, "\n")) = <<>>

DryRunRequested == raw.dry_run = <<"t", "r", "u", "e">>

\* a side with a ".." segment or a leading "/"
TraversalSegment(side) ==
  \E k \in 1..Len(split(side, "/")) : split(side, "/")[k] = <<".", ".">>

RootAnchored(side) == Len(side) >= 1 /\ side[1] = "/"

UnsafeSide(side) == TraversalSegment(side) \/ RootAnchored(side)

NonBlankLines ==
  {k \in 1..Len(split(raw.sync_paths, "\n")) :
     ~Blank(split(raw.sync_paths, "\n")[k])}

\* the relocations of move_paths: the renames after repo_from_path
ComposerRenames ==
  {i \in 1..Len(calls) :
     /\ calls[i].op = "rename"
     /\ \E j \in 1..(i - 1) : calls[j].op = "repo_from_path"}

\* the calls of commit_and_push, in order
CommitterOps == {"status", "add", "commit", "push", "rev_parse"}

IsCommitterCall(c) == c.op \in CommitterOps

CommitterCalls == SelectSeq(calls, IsCommitterCall)

CommitterOrder == <<"status", "add", "commit", "push", "rev_parse">>

StatusChecked == CommitterCalls # <<>> /\ CommitterCalls[1].ok

StatusText == CommitterCalls[1].ret

(***************************************************************************)
(* C1.  A run whose inputs fail validation (an empty required input, a     *)
(* destination_repo that is not owner/name, a blank sync_paths, no mapping *)
(* left after filtering) ends in failure with no Git call and no file      *)
(* operation made, and no remote changed.                                  *)
(***************************************************************************)
C1_ValidationErrorBeforeAnyGit ==
  ValidationFails(raw) =>
    /\ pc \in {"start", "failed"}
    /\ calls = <<>>
    /\ fs = InitialFs
    /\ remotes = InitialRemotes
    /\ pc = "failed" => LastResult.exit = "failure" /\ LastResult.calls = <<>>

C1_Witness ==
  /\ pc = "failed"
  /\ ValidationFails(raw)
  /\ raw.personal_access_token # <<>>
  /\ ~OwnerNameShape(raw.destination_repo)

(***************************************************************************)
(* C2.  No mapping with a ".." segment or a leading "/" on either side is  *)
(* in the parsed list; every non-blank line gives either one mapping or    *)
(* one warning, never both; and every relocation of the composer is that   *)
(* of a parsed mapping, from below the source clone to below the target.   *)
(***************************************************************************)
C2_UnsafeMappingsNeverComposed ==
  /\ inputs.ok =>
       /\ \A i \in 1..Len(inputs.sync_paths) :
            /\ ~UnsafeSide(inputs.sync_paths[i][1])
            /\ ~UnsafeSide(inputs.sync_paths[i][2])
       /\ Len(inputs.sync_paths) + Len(warnings) = Cardinality(NonBlankLines)
  /\ \A i \in ComposerRenames :
       /\ IsPrefix(source_repo_dir, calls[i].on)
       /\ IsPrefix(target_dir, calls[i].arg)
       /\ \E k \in 1..Len(inputs.sync_paths) :
            /\ calls[i].on = path_join(source_repo_dir, inputs.sync_paths[k][1])
            /\ calls[i].arg = path_join(target_dir, inputs.sync_paths[k][2])
            /\ ~UnsafeSide(inputs.sync_paths[k][1])
            /\ ~UnsafeSide(inputs.sync_paths[k][2])

C2_Witness ==
  /\ pc = "status"
  /\ warnings # <<>>
  /\ ComposerRenames # {}

(***************************************************************************)
(* C3.  A dry run on valid inputs logs each parsed mapping and ends in     *)
(* success without a clone, an identity configuration, a relocation, an    *)
(* add, a commit or a push: no call is made and nothing is written.        *)
(***************************************************************************)
C3_DryRunTouchesNothing ==
  (DryRunRequested /\ ~ValidationFails(raw)) =>
    /\ pc \in {"start", "parsed", "done"}
    /\ calls = <<>>
    /\ fs = InitialFs
    /\ remotes = InitialRemotes
    /\ identity = {}
    /\ pc = "done" =>
         /\ LastResult.exit = "success"
         /\ \A i \in 1..Len(inputs.sync_paths) :
              \E k \in 1..Len(infos) :
                infos[k] = Info("mapping", <<<<ToString(i)>>,
                                             inputs.sync_paths[i][1],
                                             inputs.sync_paths[i][2]>>)

C3_Witness ==
  /\ pc = "done"
  /\ DryRunRequested
  /\ Len(inputs.sync_paths) >= 2

(***************************************************************************)
(* C4.  When status returns an empty or whitespace-only text, add, commit, *)
(* push and rev_parse are never invoked in the run, and the run ends in    *)
(* success with the empty commit hash.                                     *)
(***************************************************************************)
C4_NoChangesNoCommit ==
  (StatusChecked /\ Blank(StatusText)) =>
    /\ ~Invoked("add") /\ ~Invoked("commit")
    /\ ~Invoked("push") /\ ~Invoked("rev_parse")
    /\ commit_hash = ""
    /\ pc \in {"set_output", "done"}
    /\ pc = "done" =>
         /\ LastResult.exit = "success"
         /\ outputs = <<<<"commit_hash", "">>>>

C4_Witness ==
  /\ pc = "done"
  /\ StatusChecked
  /\ Blank(StatusText)

(***************************************************************************)
(* C5.  The calls of the committer are a prefix of status, add(["."]),     *)
(* commit, push, rev_parse("HEAD"): in that order, each at most once, each *)
(* made only after the one before it succeeded, all on the target handle.  *)
(* After a non-blank status the committer returns only after all five, and *)
(* returns what rev_parse returned; after a blank one it calls nothing.    *)
(***************************************************************************)
C5_CommitterSequence ==
  /\ Len(CommitterCalls) <= Len(CommitterOrder)
  /\ \A i \in 1..Len(CommitterCalls) :
       /\ CommitterCalls[i].op = CommitterOrder[i]
       /\ CommitterCalls[i].on = target_dir
       /\ i < Len(CommitterCalls) => CommitterCalls[i].ok
       /\ CommitterCalls[i].op = "add" => CommitterCalls[i].arg = <<".">>
       /\ CommitterCalls[i].op = "rev_parse" => CommitterCalls[i].arg = <<"HEAD">>
  /\ (StatusChecked /\ Blank(StatusText)) => Len(CommitterCalls) = 1
  /\ (StatusChecked /\ ~Blank(StatusText)) =>
       /\ pc \in {"add", "commit", "push", "rev_parse", "set_output", "done", "failed"}
       /\ pc \in {"add", "commit", "push", "rev_parse"} =>
            /\ CommitterOrder[Len(CommitterCalls) + 1] = pc
            /\ CommitterCalls[Len(CommitterCalls)].ok
       /\ pc \in {"set_output", "done"} =>
            /\ Len(CommitterCalls) = 5
            /\ CommitterCalls[5].ok
            /\ <<commit_hash>> = CommitterCalls[5].ret
       /\ pc = "failed" => ~CommitterCalls[Len(CommitterCalls)].ok

C5_Witness ==
  /\ pc = "done"
  /\ Len(CommitterCalls) = 5
  /\ CommitterCalls[5].ok
  /\ commit_hash # ""

(***************************************************************************)
(* C6.  As claimed: every successful run sets the commit_hash output, to   *)
(* the resolved HEAD of the destination when a commit was pushed and to    *)
(* the empty string when no change was detected or the run is a dry run.   *)
(***************************************************************************)
Pushed == \E i \in 1..Len(calls) : calls[i].op = "push" /\ calls[i].ok

\* the head of the destination repository named by the inputs
DestinationHead == remotes[Str(inputs.destination_repo)]

ExpectedHash == IF Pushed THEN DestinationHead ELSE ""

C6_OutputSetOnEverySuccess ==
  pc = "done" => outputs = <<<<"commit_hash", ExpectedHash>>>>

(***************************************************************************)
(* C6, amended.  Every successful run that is not a dry run sets the       *)
(* commit_hash output exactly once: to the resolved HEAD of the            *)
(* destination when a commit was pushed, to the empty string when status   *)
(* reported no change.  A successful dry run never calls set_output.       *)
(***************************************************************************)
C6_OutputSetOnEveryNonDrySuccess ==
  pc = "done" =>
    IF inputs.dry_run
    THEN outputs = <<>>
    ELSE /\ outputs = <<<<"commit_hash", ExpectedHash>>>>
         /\ Pushed => ExpectedHash # "" /\ ExpectedHash = head_of(fs, target_repo)
         /\ ~Pushed => StatusChecked /\ Blank(StatusText)

C6_Witness ==
  /\ pc = "done"
  /\ Pushed
  /\ outputs = <<<<"commit_hash", DestinationHead>>>>
  /\ DestinationHead # "d0"

(***************************************************************************)
(* C7.  Idempotence: with valid inputs of a run that is not a dry run, a   *)
(* run in which no Git command and no file operation fails ends in         *)
(* success; and of two successive successful runs of which the first       *)
(* returned a commit hash, the second returns the empty hash, makes no     *)
(* commit and no push and leaves the remotes as the first left them.       *)
(***************************************************************************)
\* a call of result r that failed in the collaborator: a Git command or a
\* file operation that reported an error
CollaboratorFailed(r) ==
  \E i \in 1..Len(r.calls) :
    /\ ~r.calls[i].ok
    /\ r.error # "TypeError: git.repo_from_path is not a function"

HashOf(r) == IF r.outputs = <<>> THEN "" ELSE r.outputs[1][2]

MadeCall(r, op) == \E i \in 1..Len(r.calls) : r.calls[i].op = op

C7_Idempotence ==
  /\ \A k \in 1..Len(results) :
       (results[k].exit = "failure" /\ ~ValidationFails(raw)) =>
         CollaboratorFailed(results[k])
  /\ \A k \in 1..(Len(results) - 1) :
       (/\ results[k].exit = "success" /\ results[k + 1].exit = "success"
        /\ ~DryRunRequested
        /\ HashOf(results[k]) # "") =>
         /\ HashOf(results[k + 1]) = ""
         /\ ~MadeCall(results[k + 1], "commit")
         /\ ~MadeCall(results[k + 1], "push")
         /\ results[k + 1].remotes = results[k].remotes

(***************************************************************************)
(* C8.  History preservation: when composition has completed, the          *)
(* metadata directory of the merged tree holds exactly what the clone of   *)
(* the destination put there, and no other metadata directory is in the    *)
(* merged tree.                                                            *)
(***************************************************************************)
\* the metadata directory as git clone of the destination wrote it
DestinationMetadata ==
  [r \in {<<"config">>, <<"HEAD">>} |->
     IF r = <<"config">>
     THEN "origin:" \o Str(inputs.destination_repo)
     ELSE DestinationHead]

C8_HistoryPreserved ==
  pc = "status" =>
    /\ tree_at(fs, Append(target_dir, GitDir)) = DestinationMetadata
    /\ \A q \in below(fs, target_dir) :
         \A n \in (Len(target_dir) + 2)..Len(q) : q[n] # GitDir

(***************************************************************************)
(* C9.  Overwrite order: of two mappings a->x and, later, b->x whose       *)
(* sources are in the source repository with different content, the later  *)
(* one is applied without failing, and when composition has completed the  *)
(* merged tree holds at x what the source held at b.                       *)
(***************************************************************************)
\* the node at p and everything below it, by relative path
node_at(f, p) ==
  [r \in {SubSeq(q, Len(p) + 1, Len(q)) : q \in subtree(f, p)} |-> f[p \o r]]

\* the source repository as cloned
SourceClone == clone_tree(SourceRepoName, "s0", SourceFiles)

SourceNode(rel) == node_at(SourceClone, path_join(<<>>, rel))

\* mappings i < j to the same destination from differing sources that exist
Overwrites(i, j) ==
  LET m == inputs.sync_paths IN
  /\ i < j
  /\ path_join(<<>>, m[i][2]) = path_join(<<>>, m[j][2])
  /\ path_join(<<>>, m[i][2]) # <<>>
  /\ path_join(<<>>, m[i][1]) # <<>> /\ path_join(<<>>, m[j][1]) # <<>>
  /\ path_join(<<>>, m[i][1]) \in DOMAIN SourceClone
  /\ path_join(<<>>, m[j][1]) \in DOMAIN SourceClone
  /\ ~IsPrefix(path_join(<<>>, m[i][1]), path_join(<<>>, m[j][1]))
  /\ ~IsPrefix(path_join(<<>>, m[j][1]), path_join(<<>>, m[i][1]))
  /\ SourceNode(m[i][1]) # SourceNode(m[j][1])

\* the run failed in move_paths while applying mapping j
FailedAtMapping(j) ==
  /\ pc = "failed"
  /\ Invoked("repo_from_path")
  /\ calls[Len(calls)].op \in {"makeDirectory", "rename"}
  /\ move_index = j

C9_LaterMappingWins ==
  (inputs.ok /\ Str(inputs.source_repo) = SourceRepoName) =>
    \A i, j \in 1..Len(inputs.sync_paths) :
      Overwrites(i, j) =>
        /\ ~FailedAtMapping(j)
        /\ (pc = "status" /\ j = Len(inputs.sync_paths)) =>
             node_at(fs, path_join(target_dir, inputs.sync_paths[j][2]))
               = SourceNode(inputs.sync_paths[j][1])

(***************************************************************************)
(* C10.  The working directories of a run that is not a dry run are gone   *)
(* when the run is over, whether it succeeded, found no change or failed.  *)
(***************************************************************************)
C10_WorkingDirectoriesRemoved ==
  (RunOver /\ temp_dir # NoPath) => subtree(fs, temp_dir) = {}

(***************************************************************************)
(* C11.  In every run the raw token is registered with set_secret before   *)
(* it reaches a span attribute or a clone URL, and every clone URL holds   *)
(* the token percent-encoded: the part of the URL before "@github.com/"    *)
(* has no reserved character and decodes to the raw token.                 *)
(***************************************************************************)
\* the characters a URI component keeps as they are
Unreserved == RepoChars \cup {"!", "~", "*", "'", "(", ")"}

\* the character a percent escape stands for
Unescaped(hi, lo) ==
  CASE <<hi, lo>> = <<"4", "0">> -> "@"
    [] <<hi, lo>> = <<"2", "F">> -> "/"
    [] <<hi, lo>> = <<"3", "A">> -> ":"
    [] <<hi, lo>> = <<"2", "0">> -> " "
    [] <<hi, lo>> = <<"2", "3">> -> "#"
    [] <<hi, lo>> = <<"2", "B">> -> "+"
    [] OTHER -> "?"

RECURSIVE PercentDecoded(_)
PercentDecoded(s) ==
  IF s = <<>> THEN <<>>
  ELSE IF Head(s) = "%" /\ Len(s) >= 3
  THEN <<Unescaped(s[2], s[3])>> \o PercentDecoded(SubSeq(s, 4, Len(s)))
  ELSE <<Head(s)>> \o PercentDecoded(Tail(s))

SchemePrefix == <<"h", "t", "t", "p", "s", ":", "/", "/">>

HostPart == <<"@", "g", "i", "t", "h", "u", "b", ".", "c", "o", "m", "/">>

\* url is https://<userinfo>@github.com/<repo>.git with the userinfo encoded
CarriesEncoded(url, token, repo) ==
  \E n \in 0..(Len(url) - Len(SchemePrefix)) :
    LET userinfo == SubSeq(url, Len(SchemePrefix) + 1, Len(SchemePrefix) + n) IN
    /\ url = SchemePrefix \o userinfo \o HostPart \o repo \o <<".", "g", "i", "t">>
    /\ \A i \in 1..Len(userinfo) : userinfo[i] \in Unreserved \cup {"%"}
    /\ PercentDecoded(userinfo) = token

TokenInSpans ==
  \E a \in span_attrs : a[3] = raw.personal_access_token /\ a[3] # <<>>

CloneCalls == {i \in 1..Len(calls) : calls[i].op = "clone"}

C11_SecretRegisteredBeforeUse ==
  /\ pc # "start" => secrets = <<raw.personal_access_token>>
  /\ (TokenInSpans \/ CloneCalls # {}) =>
       \E k \in 1..Len(secrets) : secrets[k] = raw.personal_access_token
  /\ \A i \in CloneCalls :
       /\ \/ CarriesEncoded(calls[i].arg, raw.personal_access_token,
                            raw.destination_repo)
          \/ CarriesEncoded(calls[i].arg, raw.personal_access_token,
                            raw.source_repo)
       /\ (\E c \in 1..Len(raw.personal_access_token) :
             raw.personal_access_token[c] \notin Unreserved) =>
            ~includes(calls[i].arg, raw.personal_access_token)

C11_Witness ==
  /\ Cardinality(CloneCalls) = 2
  /\ includes(raw.personal_access_token, <<"@">>)
  /\ TokenInSpans
  /\ secrets = <<raw.personal_access_token>>

(***************************************************************************)
(* C12.  A Git operation that fails (config, clone, status, add, commit,   *)
(* push, rev_parse) is the last call of its run and the run ends in        *)
(* failure; no Git operation is made twice with the same arguments; and    *)
(* after a failed add or commit no push is made and the remotes are what   *)
(* they were when the run began.                                           *)
(***************************************************************************)
GitOps == {"config", "clone", "status", "add", "commit", "push", "rev_parse"}

FailedGitCalls == {i \in 1..Len(calls) : calls[i].op \in GitOps /\ ~calls[i].ok}

\* the remotes when the current run began
RemotesAtStart == IF run = 1 THEN InitialRemotes ELSE results[run - 1].remotes

C12_GitFailureAbortsRun ==
  /\ \A i \in FailedGitCalls :
       /\ i = Len(calls)
       /\ pc = "failed"
       /\ LastResult.exit = "failure"
       /\ LastResult.calls = calls
       /\ outputs = <<>>
       /\ calls[i].op \in {"config", "clone", "status", "add", "commit"} =>
            /\ ~Invoked("push")
            /\ remotes = RemotesAtStart
  /\ \A i, j \in 1..Len(calls) :
       (i < j /\ calls[i].op \in GitOps /\ calls[i].op = calls[j].op) =>
         <<calls[i].on, calls[i].arg>> # <<calls[j].on, calls[j].arg>>

C12_Witness ==
  /\ pc = "failed"
  /\ calls # <<>>
  /\ calls[Len(calls)].op = "commit"
  /\ ~calls[Len(calls)].ok
  /\ Invoked("add")
  /\ remotes = RemotesAtStart

(***************************************************************************)
(* C13.  When push succeeded and rev_parse then fails, the run ends in     *)
(* failure with no commit_hash output set, and the destination remote      *)
(* keeps the pushed commit.  In every run set_output is called at most     *)
(* once, and never in a run that ends in failure.                          *)
(***************************************************************************)
RevParseFailedAfterPush ==
  /\ Pushed
  /\ \E i \in 1..Len(calls) : calls[i].op = "rev_parse" /\ ~calls[i].ok

C13_FailureAfterPush ==
  /\ RevParseFailedAfterPush =>
       /\ pc = "failed"
       /\ LastResult.exit = "failure"
       /\ LastResult.outputs = <<>>
       /\ outputs = <<>>
       /\ remotes[origin_of(fs, target_repo)] = head_of(fs, target_repo)
       /\ remotes # RemotesAtStart
       /\ LastResult.remotes = remotes
  /\ Len(outputs) <= 1
  /\ pc = "failed" => outputs = <<>>
  /\ \A k \in 1..Len(results) :
       /\ Len(results[k].outputs) <= 1
       /\ results[k].exit = "failure" => results[k].outputs = <<>>

C13_Witness ==
  /\ RevParseFailedAfterPush
  /\ pc = "failed"
  /\ DestinationHead \notin {"d0", "s0"}

(***************************************************************************)
(* C14.  When move_paths comes to a mapping whose source path is not in    *)
(* the source clone, that step ends the run in failure: no warning is      *)
(* emitted, no later mapping is applied, no add, commit or push is made,   *)
(* the remotes are untouched, and nothing follows a failed run.            *)
(***************************************************************************)
\* move_paths is at a mapping whose source path does not exist
MissingSource ==
  /\ pc = "move_paths"
  /\ ~fs_exists(fs, path_join(source_repo_dir, inputs.sync_paths[move_index][1]))

C14_MissingSourceIsFatal ==
  [][ /\ MissingSource =>
           /\ pc' = "failed"
           /\ results'[Len(results')].exit = "failure"
           /\ results'[Len(results')].error = "ENOENT"
           /\ warnings' = warnings
           /\ move_index' = move_index
           /\ remotes' = remotes
           /\ ~calls'[Len(calls')].ok
           /\ calls'[Len(calls')].op = "rename"
           /\ calls'[Len(calls')].on =
                path_join(source_repo_dir, inputs.sync_paths[move_index][1])
           /\ \A i \in 1..Len(calls') :
                calls'[i].op \notin {"status", "add", "commit", "push"}
      /\ pc = "failed" => FALSE
    ]_vars

C14_Witness ==
  /\ pc = "failed"
  /\ LastResult.error = "ENOENT"
  /\ Invoked("repo_from_path")
  /\ move_index < Len(inputs.sync_paths)
  /\ warnings = <<>>

(***************************************************************************)
(* C15.  With the other inputs valid, parse_inputs fails (with one of its  *)
(* two sync_paths errors, before any call) exactly when no line is left    *)
(* after the blank lines and the lines rejected by the safety check are    *)
(* dropped; and whenever parse_inputs succeeds the mapping list is not     *)
(* empty.                                                                  *)
(***************************************************************************)
\* the sides of a line: the text before and after the first ":", or the line
LineSides(line) ==
  LET t == trim(line) IN
  IF \E i \in 1..Len(t) : t[i] = ":"
  THEN LET c == CHOOSE i \in 1..Len(t) : t[i] = ":" /\ \A j \in 1..(i - 1) : t[j] # ":"
       IN <<strip_quotes(trim(SubSeq(t, 1, c - 1))),
            strip_quotes(trim(SubSeq(t, c + 1, Len(t))))>>
  ELSE <<strip_quotes(t)>>

\* the safety check as the code applies it: ".." anywhere, or a leading "/"
RejectedLine(line) ==
  \E k \in 1..Len(LineSides(line)) :
    LET side == LineSides(line)[k] IN
    \/ \E i \in 1..(Len(side) - 1) : side[i] = "." /\ side[i + 1] = "."
    \/ RootAnchored(side)

InputLines == split(raw.sync_paths, "\n")

RemainingLines ==
  {k \in 1..Len(InputLines) :
     ~Blank(InputLines[k]) /\ ~RejectedLine(InputLines[k])}

OtherInputsValid ==
  /\ raw.personal_access_token # <<>>
  /\ raw.source_repo # <<>>
  /\ OwnerNameShape(raw.destination_repo)

SyncPathsErrors == {"sync_paths is required", "No valid sync paths found"}

ParsingFailed ==
  /\ pc = "failed"
  /\ calls = <<>>
  /\ LastResult.error \in SyncPathsErrors

C15_FailsIffNoMappingRemains ==
  /\ (OtherInputsValid /\ pc # "start") =>
       /\ ParsingFailed <=> RemainingLines = {}
       /\ ~ParsingFailed => inputs.ok
  /\ inputs.ok =>
       /\ Len(inputs.sync_paths) >= 1
       /\ Len(inputs.sync_paths) = Cardinality(RemainingLines)

C15_Witness ==
  /\ ParsingFailed
  /\ OtherInputsValid
  /\ ~Blank(raw.sync_paths)
  /\ warnings # <<>>

(***************************************************************************)
(* C16.  With the other inputs valid and sync_paths not blank, the         *)
(* warnings are exactly one per rejected line, in line order, and none for *)
(* an accepted or a blank line; the mapping list is exactly the accepted   *)
(* lines, in line order; and when a line is accepted next to a rejected    *)
(* one, parsing succeeds and the composer applies the accepted mappings    *)
(* only.                                                                   *)
(***************************************************************************)
RejectedLines ==
  {k \in 1..Len(InputLines) :
     ~Blank(InputLines[k]) /\ RejectedLine(InputLines[k])}

\* the k-th smallest member of a set of line numbers
Nth(S, k) == CHOOSE i \in S : Cardinality({j \in S : j < i}) = k - 1

\* the mapping a line stands for: its two sides, or its one side twice
LineMapping(line) ==
  LET sides == LineSides(line) IN
  IF Len(sides) = 1 THEN <<sides[1], sides[1]>> ELSE sides

C16_RejectedLinesOnlyWarn ==
  (OtherInputsValid /\ ~Blank(raw.sync_paths) /\ pc # "start") =>
    /\ Len(warnings) = Cardinality(RejectedLines)
    /\ \A k \in 1..Len(warnings) :
         warnings[k] = LineSides(InputLines[Nth(RejectedLines, k)])
    /\ RemainingLines # {} =>
         /\ inputs.ok
         /\ ~ParsingFailed
         /\ Len(inputs.sync_paths) = Cardinality(RemainingLines)
         /\ \A k \in 1..Len(inputs.sync_paths) :
              inputs.sync_paths[k] = LineMapping(InputLines[Nth(RemainingLines, k)])
         /\ \A i \in ComposerRenames :
              \E k \in 1..Len(inputs.sync_paths) :
                calls[i].on = path_join(source_repo_dir, inputs.sync_paths[k][1])
         /\ pc = "status" =>
              Cardinality(ComposerRenames) = Cardinality(RemainingLines)

C16_Witness ==
  /\ pc = "done"
  /\ Pushed
  /\ Len(warnings) = 2
  /\ Len(inputs.sync_paths) = 1
  /\ Cardinality(ComposerRenames) = 1

(***************************************************************************)
(* C17.  Every line A:B whose sides are not wrapped in quotes and hold no  *)
(* ".." segment and no leading "/" gives exactly one mapping,              *)
(* (trim(A), trim(B)): parsing succeeds, the mapping is in the list, no    *)
(* warning is emitted for the line, and every non-blank line has one       *)
(* outcome.                                                                *)
(***************************************************************************)
HasSeparator(line) == \E i \in 1..Len(line) : line[i] = ":"

\* the text before and after the first ":" of a line, each trimmed
RawSides(line) ==
  LET t == trim(line)
      c == CHOOSE i \in 1..Len(t) : t[i] = ":" /\ \A j \in 1..(i - 1) : t[j] # ":"
  IN <<trim(SubSeq(t, 1, c - 1)), trim(SubSeq(t, c + 1, Len(t)))>>

Quoted(side) == Len(side) >= 2 /\ side[1] = "\"" /\ side[Len(side)] = "\""

\* the lines A:B, unquoted, with no unsafe side
SafePlainLines ==
  {k \in 1..Len(InputLines) :
     /\ HasSeparator(InputLines[k])
     /\ \A n \in 1..2 :
          /\ ~Quoted(RawSides(InputLines[k])[n])
          /\ ~UnsafeSide(RawSides(InputLines[k])[n])}

C17_SafeLineYieldsItsMapping ==
  (OtherInputsValid /\ pc # "start") =>
    \A k \in SafePlainLines :
      /\ inputs.ok
      /\ \E m \in 1..Len(inputs.sync_paths) :
           inputs.sync_paths[m] = RawSides(InputLines[k])
      /\ \A w \in 1..Len(warnings) : warnings[w] # RawSides(InputLines[k])
      /\ Len(inputs.sync_paths) + Len(warnings) = Cardinality(NonBlankLines)

(***************************************************************************)
(* C18.  As claimed: every non-blank line A with no separator that passes  *)
(* the safety check gives exactly the mapping (A, A), A being the line     *)
(* trimmed.                                                                *)
(***************************************************************************)
\* the lines without separator that the safety check lets pass
BareLines ==
  {k \in RemainingLines : ~HasSeparator(InputLines[k])}

\* the position in the mapping list of the mapping of remaining line k
MappingIndex(k) == Cardinality({j \in RemainingLines : j <= k})

Unwrapped(t) == IF Quoted(t) THEN SubSeq(t, 2, Len(t) - 1) ELSE t

SeparatorLines ==
  {k \in 1..Len(InputLines) :
     ~Blank(InputLines[k]) /\ HasSeparator(InputLines[k])}

\* the position among the warnings of the warning of rejected line k
WarningIndex(k) == Cardinality({j \in RejectedLines : j <= k})

\* what parsing made of line k: the sides of its mapping or of its warning
Outcome(k) ==
  IF k \in RemainingLines
  THEN inputs.sync_paths[MappingIndex(k)]
  ELSE warnings[WarningIndex(k)]

C19_SplitAtFirstSeparator ==
  (OtherInputsValid /\ pc # "start") =>
    \A k \in SeparatorLines :
      Outcome(k) = <<Unwrapped(RawSides(InputLines[k])[1]),
                     Unwrapped(RawSides(InputLines[k])[2])>>

(***************************************************************************)
(* C19, amended.  For a line with a separator the source is the text       *)
(* before the first ":" and the destination all the text after it, each    *)
(* trimmed; a side wrapped in a pair of double quotes has exactly that     *)
(* pair removed when the text between the quotes holds no line terminator, *)
(* and is kept as it is, quotes included, when it holds one.               *)
(***************************************************************************)
UnwrappedOnOneLine(t) ==
  IF Quoted(t) /\ \A i \in 2..(Len(t) - 1) : t[i] \notin {"\n", "\r"}
  THEN SubSeq(t, 2, Len(t) - 1)
  ELSE t

C19_SplitAtFirstSeparatorOneLineQuotes ==
  (OtherInputsValid /\ pc # "start") =>
    \A k \in SeparatorLines :
      Outcome(k) = <<UnwrappedOnOneLine(RawSides(InputLines[k])[1]),
                     UnwrappedOnOneLine(RawSides(InputLines[k])[2])>>

C19_Witness ==
  /\ pc = "parsed"
  /\ Len(inputs.sync_paths) = 2
  /\ inputs.sync_paths[1] = << <<"a">>, <<"x", ":", "y">> >>
  /\ inputs.sync_paths[2] = << <<"\"", "a", "\r", "b", "\"">>, <<"x", " ", "y">> >>

(***************************************************************************)
(* C20.  The inputs parse_inputs returns have a source_repo and a          *)
(* destination_repo of the owner/name shape; a run whose source_repo or    *)
(* destination_repo is not of that shape fails in parse_inputs, before any *)
(* call, and makes no clone.                                               *)
(***************************************************************************)
C20_RepoIdentifiersShaped ==
  /\ inputs.ok =>
       /\ OwnerNameShape(inputs.source_repo)
       /\ OwnerNameShape(inputs.destination_repo)
  /\ (/\ pc # "start"
      /\ ~OwnerNameShape(raw.source_repo) \/ ~OwnerNameShape(raw.destination_repo)) =>
       /\ pc = "failed"
       /\ calls = <<>>
       /\ ~Invoked("clone")

(***************************************************************************)
(* C21.  When a later mapping's source lies inside, or is, the source of   *)
(* an earlier mapping, both being in the source repository, the later      *)
(* mapping is applied without failing, and when composition has completed  *)
(* the merged tree holds at its destination what the source repository     *)
(* held at its source.                                                     *)
(***************************************************************************)
\* mapping j's source lies inside (or is) the source of the earlier mapping i
NestedSources(i, j) ==
  LET m == inputs.sync_paths IN
  /\ i < j
  /\ path_join(<<>>, m[i][1]) # <<>>
  /\ path_join(<<>>, m[i][1]) \in DOMAIN SourceClone
  /\ path_join(<<>>, m[j][1]) \in DOMAIN SourceClone
  /\ IsPrefix(path_join(<<>>, m[i][1]), path_join(<<>>, m[j][1]))

C21_NestedSourcesAllApplied ==
  (inputs.ok /\ Str(inputs.source_repo) = SourceRepoName) =>
    \A i, j \in 1..Len(inputs.sync_paths) :
      NestedSources(i, j) =>
        /\ ~FailedAtMapping(j)
        /\ pc = "status" =>
             node_at(fs, path_join(target_dir, inputs.sync_paths[j][2]))
               = SourceNode(inputs.sync_paths[j][1])

(***************************************************************************)
(* C22.  status() of a repository handle returns a blank text exactly when *)
(* the working tree of the handle has no pending change: for every handle  *)
(* the provided layer has returned, and for the text commit_and_push acted *)
(* on.                                                                     *)
(***************************************************************************)
\* the directories of the handles returned so far by clone and repo_from_path
Handles ==
  {calls[i].on : i \in {n \in 1..Len(calls) :
                          calls[n].op \in {"clone", "repo_from_path"} /\ calls[n].ok}}

C22_StatusBlankIffClean ==
  /\ \A h \in Handles :
       repo_ok(fs, h) =>
         (Blank(status_text(git_impl, fs, h)) <=> clean(fs, h))
  /\ (StatusChecked /\ pc \in {"add", "set_output"} /\ ~Invoked("add")) =>
       (Blank(StatusText) <=> clean(fs, target_repo))
  /\ (pc = "set_output" /\ ~Invoked("add")) => clean(fs, target_repo)
  /\ pc = "add" => ~clean(fs, target_repo)

(***************************************************************************)
(* C23.  Before commit is invoked, the identity (user.name and user.email) *)
(* has been configured on the handle of the merged tree, which makes the   *)
(* commit; and the identity is configured nowhere else: not in another     *)
(* repository, not in the directory the process runs in.                   *)
(***************************************************************************)
ConfigCalls == {i \in 1..Len(calls) : calls[i].op = "config"}

C23_IdentityOnCommittingHandle ==
  /\ \A c \in 1..Len(calls) :
       calls[c].op = "commit" =>
         \E i \in ConfigCalls :
           /\ i < c
           /\ calls[i].ok
           /\ calls[i].on = calls[c].on
  /\ \A i \in ConfigCalls : calls[i].on = target_dir
  /\ Invoked("commit") => identity = {}

(***************************************************************************)
(* C24.  When the two clones and the relocation of the metadata directory  *)
(* have succeeded, the layer can bind a handle to the target directory;    *)
(* the binding ends in failure only if the Git command behind it failed;   *)
(* the handle bound is that of the target directory, on which status, add, *)
(* commit, push and rev_parse are then made; and after a successful        *)
(* binding the run is in move_paths or beyond.                             *)
(***************************************************************************)
BindCalls == {i \in 1..Len(calls) : calls[i].op = "repo_from_path"}

C24_HandleBoundToTarget ==
  /\ pc = "repo_from_path" => "bound" \in repo_from_path_outcomes
  /\ \A i \in BindCalls :
       /\ calls[i].on = target_dir
       /\ ~calls[i].ok =>
            /\ pc = "failed"
            /\ LastResult.error = "git repo_from_path"
       /\ calls[i].ok =>
            /\ target_repo = target_dir
            /\ pc \in {"move_paths", "status", "add", "commit", "push",
                       "rev_parse", "set_output", "done", "failed"}
            /\ \A c \in 1..Len(CommitterCalls) : CommitterCalls[c].on = target_dir

(***************************************************************************)
(* C25.  The relocations of the composer are made one after the other in   *)
(* the order of the accepted lines: the i-th one moves the source of the   *)
(* i-th accepted line to its destination, right after the directory of the *)
(* destination was made, and only after relocation i-1 succeeded.          *)
(***************************************************************************)
\* the calls move_paths has made, in order
ComposerCalls ==
  LET first == CHOOSE i \in BindCalls : TRUE IN
  SelectSeq(SubSeq(calls, first + 1, Len(calls)),
            LAMBDA c : c.op \in {"makeDirectory", "rename"})

C25_RelocationsInLineOrder ==
  BindCalls # {} =>
    /\ Len(ComposerCalls) <= 2 * Len(inputs.sync_paths)
    /\ \A n \in 1..Len(ComposerCalls) :
         LET i == (n + 1) \div 2
             mapping == LineMapping(InputLines[Nth(RemainingLines, i)])
         IN
         /\ n < Len(ComposerCalls) => ComposerCalls[n].ok
         /\ n % 2 = 1 =>
              /\ ComposerCalls[n].op = "makeDirectory"
              /\ ComposerCalls[n].on =
                   path_dirname(path_join(target_dir, mapping[2]))
         /\ n % 2 = 0 =>
              /\ ComposerCalls[n].op = "rename"
              /\ ComposerCalls[n].on = path_join(source_repo_dir, mapping[1])
              /\ ComposerCalls[n].arg = path_join(target_dir, mapping[2])
    /\ pc = "move_paths" => Len(ComposerCalls) = 2 * (move_index - 1)
    /\ pc \in {"status", "add", "commit", "push", "rev_parse", "set_output", "done"} =>
         /\ Len(ComposerCalls) = 2 * Len(inputs.sync_paths)
         /\ ComposerCalls[Len(ComposerCalls)].ok

C25_Witness ==
  /\ pc = "status"
  /\ Len(ComposerCalls) = 4
  /\ ComposerCalls[2].on # ComposerCalls[4].on
  /\ warnings = <<>>

(***************************************************************************)
(* C26.  A run clones at most twice: first the destination repository into *)
(* destination_repo, then, only if that succeeded, the source repository   *)
(* into source_repo.  The relocation of the metadata directory, the        *)
(* binding of the handle, every relocation of a mapping and status come    *)
(* after both clones have succeeded.                                       *)
(***************************************************************************)
IsClone(c) == c.op = "clone"

CloneSeq == SelectSeq(calls, IsClone)

\* the calls that need both clones
AfterCloneOps == {"rename", "repo_from_path", "status", "add", "commit", "push",
                  "rev_parse"}

C26_DestinationThenSource ==
  /\ Len(CloneSeq) <= 2
  /\ Len(CloneSeq) >= 1 =>
       /\ CloneSeq[1].on = destination_repo_dir
       /\ CarriesEncoded(CloneSeq[1].arg, raw.personal_access_token,
                         raw.destination_repo)
       /\ ~CloneSeq[1].ok =>
            /\ Len(CloneSeq) = 1
            /\ pc = "failed"
            /\ calls[Len(calls)] = CloneSeq[1]
  /\ Len(CloneSeq) = 2 =>
       /\ CloneSeq[1].ok
       /\ CloneSeq[2].on = source_repo_dir
       /\ CarriesEncoded(CloneSeq[2].arg, raw.personal_access_token,
                         raw.source_repo)
  /\ \A i \in 1..Len(calls) :
       (calls[i].op \in AfterCloneOps
          \/ (calls[i].op = "makeDirectory" /\ calls[i].on # target_dir)) =>
         /\ Len(CloneSeq) = 2
         /\ CloneSeq[1].ok /\ CloneSeq[2].ok
         /\ Cardinality({j \in CloneCalls : j < i}) = 2

C26_Witness ==
  /\ pc = "status"
  /\ Len(CloneSeq) = 2
  /\ CloneSeq[2].ok
  /\ ComposerRenames # {}

(***************************************************************************)
(* C27.  The raw token is passed to set_secret and nowhere else: no info   *)
(* or warning message, no output and no span attribute holds it, and the   *)
(* clone URLs hold it percent-encoded only.                                *)
(***************************************************************************)
\* one of the texts holds the raw token
HoldsToken(texts) ==
  \E n \in 1..Len(texts) : includes(texts[n], raw.personal_access_token)

C27_TokenFlowsOnlyToMaskAndUrls ==
  raw.personal_access_token # <<>> =>
    /\ \A a \in span_attrs : a[3] # raw.personal_access_token
    /\ \A k \in 1..Len(infos) : ~HoldsToken(infos[k].args)
    /\ \A k \in 1..Len(warnings) : ~HoldsToken(warnings[k])
    /\ \A k \in 1..Len(outputs) : outputs[k][2] # Str(raw.personal_access_token)
    /\ \A i \in CloneCalls :
         \/ CarriesEncoded(calls[i].arg, raw.personal_access_token,
                           raw.destination_repo)
         \/ CarriesEncoded(calls[i].arg, raw.personal_access_token,
                           raw.source_repo)

(***************************************************************************)
(* C28.  From the end of composition on, every path of the merged tree is  *)
(* in the metadata directory, or was placed by a mapping, or is a parent   *)
(* directory of a mapped destination.  A file of the destination's head    *)
(* commit that is outside every mapped destination is not in the merged    *)
(* tree, and status then reports a change: the run goes on to add.         *)
(***************************************************************************)
\* the destinations of the mappings, below the target directory
MappedDestinations ==
  {path_join(target_dir, inputs.sync_paths[k][2]) :
     k \in 1..Len(inputs.sync_paths)}

\* the files of the commit the destination clone checked out
DestinationTracked == commits[RemotesAtStart[Str(inputs.destination_repo)]].files

\* a tracked destination file outside every mapped destination
Unmapped(r) ==
  \A d \in MappedDestinations :
    ~IsPrefix(d, target_dir \o r) /\ ~IsPrefix(target_dir \o r, d)

Composed == pc \in {"status", "add", "commit", "push", "rev_parse", "set_output"}

C28_MergedTreeIsMetadataAndMappings ==
  Composed =>
    /\ \A q \in below(fs, target_dir) :
         \/ q[Len(target_dir) + 1] = GitDir
         \/ \E d \in MappedDestinations : IsPrefix(d, q) \/ IsPrefix(q, d)
    /\ \A r \in DOMAIN DestinationTracked :
         Unmapped(r) =>
           /\ ~fs_exists(fs, target_dir \o r)
           /\ ~clean(fs, target_dir) \/ Invoked("commit")
           /\ pc # "status" =>
                /\ ~Blank(StatusText)
                /\ Invoked("add") \/ pc = "add"

C28_Witness ==
  /\ pc = "add"
  /\ ~Invoked("add")
  /\ <<"k">> \in DOMAIN DestinationTracked
  /\ Unmapped(<<"k">>)
  /\ ComposerRenames # {}

(***************************************************************************)
(* C29.  Neither side of a parsed mapping is the empty text, and every     *)
(* relocation of the composer moves a path strictly below the source clone *)
(* to a path strictly below the target directory.                          *)
(***************************************************************************)
StrictlyBelow(dir, p) == IsPrefix(dir, p) /\ p # dir

C29_PathsStrictlyInside ==
  /\ inputs.ok =>
       \A k \in 1..Len(inputs.sync_paths) :
         /\ inputs.sync_paths[k][1] # <<>>
         /\ inputs.sync_paths[k][2] # <<>>
  /\ \A i \in ComposerRenames :
       /\ StrictlyBelow(source_repo_dir, calls[i].on)
       /\ StrictlyBelow(target_dir, calls[i].arg)

(***************************************************************************)
(* C30.  add, commit and push are made only on the handle of the target    *)
(* directory, whose metadata names the destination repository as its       *)
(* origin; and no run changes the head of the source repository.           *)
(***************************************************************************)
MutatingOps == {"add", "commit", "push"}

C30_MutationsOnlyOnTargetHandle ==
  /\ \A i \in 1..Len(calls) :
       calls[i].op \in MutatingOps =>
         /\ calls[i].on = target_dir
         /\ calls[i].on \notin {source_repo_dir, destination_repo_dir}
         /\ fs_exists(fs, config_path(target_dir))
         /\ fs[config_path(target_dir)] = "origin:" \o Str(inputs.destination_repo)
  /\ remotes[SourceRepoName] = InitialRemotes[SourceRepoName]

====
